---- MODULE Spec2Model ----
(***************************************************************************)
(* Model of the dataset ingestion pipeline of Laboratorio-N1:              *)
(*   src/domain/dataset.py        Dataset (abstract base)                  *)
(*   src/domain/dataset_csv.py    DatasetCSV                               *)
(*   src/domain/dataset_excel.py  DatasetExcel                             *)
(*                                                                         *)
(* Text is a sequence of one-character strings, so that lower-casing,      *)
(* replacement, stripping, splitting and decoding are computed and not     *)
(* assumed.  A table (pandas DataFrame) is a record                        *)
(*   [columns, dtypes, rows]                                               *)
(* and a cell is [k, v]: k = "na" (missing, NaN), "s" (text), "n" (number) *)
(* with v the characters of the value.  pandas semantics are those of      *)
(* pandas 1.x / 2.x with object-dtype text columns.                        *)
(***************************************************************************)
EXTENDS Integers, Sequences, FiniteSets, TLC

VARIABLES
    archivo,                 \* the file at ruta_archivo, as the file system holds it
    tipo,                    \* "csv" (DatasetCSV) or "excel" (DatasetExcel)
    ruta_archivo,            \* Dataset.__ruta_archivo
    dataframe,               \* Dataset.__dataframe: NoDF or DF(table)
    esta_cargado,            \* Dataset.__esta_cargado
    separador,               \* DatasetCSV.__separador (explicit)
    codificacion,            \* DatasetCSV.__codificacion (explicit)
    separador_detectado,     \* DatasetCSV.__separador_detectado
    codificacion_detectada,  \* DatasetCSV.__codificacion_detectada
    nombre_hoja,             \* DatasetExcel.__nombre_hoja
    hojas_disponibles,       \* DatasetExcel.__hojas_disponibles
    res                      \* the last call: [op, arg, ret, exc, diag, antes]

vars == <<archivo, tipo, ruta_archivo, dataframe, esta_cargado, separador,
          codificacion, separador_detectado, codificacion_detectada,
          nombre_hoja, hojas_disponibles, res>>

----------------------------------------------------------------------------
(* Bounds of the model *)

\* rows of the tables drawn by SpecTablas
MaxRows == 3
\* lines of the file contents drawn by SpecArchivo
MaxLineas == 3

----------------------------------------------------------------------------
(* Python values *)

\* Python None in a text-valued slot
None == "None"
\* values assignable to the table slot: None, a DataFrame, anything else
NoDF == [py |-> "NoneType"]
DF(t) == [py |-> "DataFrame", t |-> t]
NoTabla == [py |-> "list"]
\* isinstance(v, pd.DataFrame)
IsDataFrame(v) == v.py = "DataFrame"

\* Python truthiness of an optional text value (None and "" are falsy)
Truthy(x) == x # None /\ x # ""

Min(a, b) == IF a < b THEN a ELSE b

----------------------------------------------------------------------------
(* Text *)

Mayusculas == <<"A","B","C","D","E","F","G","H","I","J","K","L","M",
                "N","O","P","Q","R","S","T","U","V","W","X","Y","Z">>
Minusculas == <<"a","b","c","d","e","f","g","h","i","j","k","l","m",
                "n","o","p","q","r","s","t","u","v","w","x","y","z">>

\* str.lower() on one character
LowerChar(c) ==
    IF \E i \in 1..Len(Mayusculas) : Mayusculas[i] = c
    THEN Minusculas[CHOOSE i \in 1..Len(Mayusculas) : Mayusculas[i] = c]
    ELSE c

\* str.lower()
Lower(s) == [i \in 1..Len(s) |-> LowerChar(s[i])]

\* str.replace(old, new) for a one-character pattern
Replace(s, old, new) == [i \in 1..Len(s) |-> IF s[i] = old THEN new ELSE s[i]]

\* str.endswith(suf)
EndsWith(s, suf) ==
    /\ Len(suf) <= Len(s)
    /\ SubSeq(s, Len(s) - Len(suf) + 1, Len(s)) = suf

Whitespace == {" ", "\t", "\n", "\r"}

RECURSIVE LStrip(_)
LStrip(s) == IF s # <<>> /\ Head(s) \in Whitespace THEN LStrip(Tail(s)) ELSE s

RECURSIVE RStrip(_)
RStrip(s) ==
    IF s # <<>> /\ s[Len(s)] \in Whitespace
    THEN RStrip(SubSeq(s, 1, Len(s) - 1))
    ELSE s

\* str.strip()
Strip(s) == LStrip(RStrip(s))

----------------------------------------------------------------------------
(* Cells and tables *)

NA == [k |-> "na", v |-> <<>>]
Txt(s) == [k |-> "s", v |-> s]
Num(s) == [k |-> "n", v |-> s]

\* str(x) of a cell value, as Series.astype(str) computes it: NaN -> "nan"
AsStr(c) == IF c.k = "na" THEN <<"n","a","n">> ELSE c.v

\* Series.astype(str).str.strip() on one cell
StripCell(c) == Txt(Strip(AsStr(c)))

\* DataFrame.isnull().sum().sum()
RECURSIVE SumSeq(_)
SumSeq(s) == IF s = <<>> THEN 0 ELSE Head(s) + SumSeq(Tail(s))

NullsInRow(r) == Cardinality({j \in 1..Len(r) : r[j].k = "na"})
CountNulls(t) == SumSeq([i \in 1..Len(t.rows) |-> NullsInRow(t.rows[i])])

\* DataFrame.duplicated(): row i repeats an earlier row (NaN equals NaN)
IsDuplicated(rows, i) == \E j \in 1..(i - 1) : rows[j] = rows[i]
CountDuplicated(t) ==
    Cardinality({i \in 1..Len(t.rows) : IsDuplicated(t.rows, i)})

\* DataFrame.drop_duplicates() (keep="first"): mutant keeping the last
RECURSIVE DropDuplicatesKeepLast(_)
DropDuplicatesKeepLast(rows) ==
    IF rows = <<>> THEN <<>>
    ELSE LET r == Head(rows)
             rest == DropDuplicatesKeepLast(Tail(rows))
         IN  IF \E j \in 1..Len(rest) : rest[j] = r THEN rest ELSE <<r>> \o rest

\* DataFrame.drop_duplicates() (keep="first")
RECURSIVE DropDuplicates(_)
DropDuplicates(rows) ==
    IF rows = <<>> THEN <<>>
    ELSE LET n == Len(rows)
             init == DropDuplicates(SubSeq(rows, 1, n - 1))
         IN  IF IsDuplicated(rows, n) THEN init ELSE Append(init, rows[n])

----------------------------------------------------------------------------
(* Dataset (src/domain/dataset.py).  A method is an operator from the      *)
(* object d to its outcome [d, ret, exc, diag, val]: the object after the  *)
(* call, the value returned ("True", "False", "None", "DataFrame", or "-"  *)
(* when the call raised or returns nothing), the exception that left the   *)
(* method ("-" if none), the lines printed, and the data returned.         *)

Out(d, ret, exc, diag, val) ==
    [d |-> d, ret |-> ret, exc |-> exc, diag |-> diag, val |-> val]

NoVal == <<>>

\* Dataset.__init__, with the fields the two subclasses add
DatasetInit(ruta) ==
    [ruta_archivo |-> ruta, dataframe |-> NoDF, esta_cargado |-> FALSE,
     separador |-> None, codificacion |-> None,
     separador_detectado |-> None, codificacion_detectada |-> None,
     nombre_hoja |-> None, hojas_disponibles |-> <<>>]

\* the dataframe setter without its type check (mutant)
SetDataframeSinValidar(d, nuevo) ==
    Out([d EXCEPT !.dataframe = nuevo, !.esta_cargado = (nuevo # NoDF)],
        "-", "-", <<>>, NoVal)

\* the dataframe setter forgetting the loaded flag (mutant)
SetDataframeSinBandera(d, nuevo) ==
    IF nuevo # NoDF /\ ~IsDataFrame(nuevo)
    THEN Out(d, "-", "TypeError", <<>>, NoVal)
    ELSE Out([d EXCEPT !.dataframe = nuevo], "-", "-", <<>>, NoVal)

\* @dataframe.setter
SetDataframe(d, nuevo) ==
    IF nuevo # NoDF /\ ~IsDataFrame(nuevo)
    THEN Out(d, "-", "TypeError", <<>>, NoVal)
    ELSE Out([d EXCEPT !.dataframe = nuevo, !.esta_cargado = (nuevo # NoDF)],
             "-", "-", <<>>, NoVal)

\* the checks of validar_integridad_datos without the duplicate-row check
\* (mutant)
ProblemasEncontradosSinDuplicados(t) ==
    (IF CountNulls(t) > 0 THEN <<"valores_faltantes">> ELSE <<>>)
    \o (IF Len(t.rows) = 0 THEN <<"dataset_vacio">> ELSE <<>>)

\* the three checks of validar_integridad_datos, in the order of the code
ProblemasEncontrados(t) ==
    (IF CountNulls(t) > 0 THEN <<"valores_faltantes">> ELSE <<>>)
    \o (IF CountDuplicated(t) > 0 THEN <<"filas_duplicadas">> ELSE <<>>)
    \o (IF Len(t.rows) = 0 THEN <<"dataset_vacio">> ELSE <<>>)

\* the messages printed and the value returned for the problems found
ResultadoValidacion(d, problemas_encontrados) ==
    Out(d, IF Len(problemas_encontrados) = 0 THEN "True" ELSE "False", "-",
        IF problemas_encontrados = <<>> THEN <<"validacion_completada">>
        ELSE problemas_encontrados,
        problemas_encontrados)

\* Dataset.validar_integridad_datos
validar_integridad_datos(d) ==
    IF ~d.esta_cargado
    THEN Out(d, "-", "ValueError", <<>>, NoVal)
    ELSE ResultadoValidacion(d, ProblemasEncontrados(d.dataframe.t))

\* columns.str.lower().str.replace(" ", "_").str.replace("-", "_"), one name;
\* mutant that forgets the hyphen
NormalizarNombreSinGuion(n) == Replace(Lower(n), " ", "_")

\* columns.str.lower().str.replace(" ", "_").str.replace("-", "_"), one name
NormalizarNombre(n) == Replace(Replace(Lower(n), " ", "_"), "-", "_")

NormalizarColumnas(t) ==
    [t EXCEPT !.columns = [i \in 1..Len(t.columns) |-> NormalizarNombre(t.columns[i])]]

EliminarDuplicados(t) == [t EXCEPT !.rows = DropDuplicates(t.rows)]

\* df[columna] is a Series only if the label names one column
EsEtiquetaUnica(t, i) ==
    Cardinality({j \in 1..Len(t.columns) : t.columns[j] = t.columns[i]}) = 1

\* df.loc[:, columna] = df[columna].astype(str).str.strip() for column i
LimpiarColumna(t, i) ==
    [t EXCEPT !.rows = [r \in 1..Len(t.rows) |->
                          [t.rows[r] EXCEPT ![i] = StripCell(t.rows[r][i])]]]

\* the loop over columnas_texto from column i on; a label shared by two
\* columns makes df[columna] a DataFrame, and .str raises AttributeError
RECURSIVE LimpiarTexto(_, _)
LimpiarTexto(t, i) ==
    IF i > Len(t.columns) THEN [t |-> t, exc |-> "-"]
    ELSE IF t.dtypes[i] # "object" THEN LimpiarTexto(t, i + 1)
    ELSE IF ~EsEtiquetaUnica(t, i) THEN [t |-> t, exc |-> "AttributeError"]
    ELSE LimpiarTexto(LimpiarColumna(t, i), i + 1)

\* the object and the value returned once the three steps have run (r.exc
\* is the error that interrupted the third)
ResultadoLimpieza(d, r) ==
    IF r.exc # "-"
    THEN Out([d EXCEPT !.dataframe = DF(r.t)], "-", r.exc,
             <<"iniciando_limpieza">>, NoVal)
    ELSE Out([d EXCEPT !.dataframe = DF(r.t)], "True", "-",
             <<"iniciando_limpieza", "transformaciones_aplicadas">>, NoVal)

\* Dataset.limpiar_y_transformar_datos
limpiar_y_transformar_datos(d) ==
    IF ~d.esta_cargado
    THEN Out(d, "False", "-", <<"no_hay_datos">>, NoVal)
    ELSE ResultadoLimpieza(d,
            LimpiarTexto(EliminarDuplicados(NormalizarColumnas(d.dataframe.t)), 1))

\* Dataset.obtener_informacion_basica
obtener_informacion_basica(d) ==
    IF ~d.esta_cargado
    THEN Out(d, "None", "-", <<"no_hay_datos">>, NoVal)
    ELSE Out(d, "None", "-", <<"informacion_del_dataset">>,
             [filas |-> Len(d.dataframe.t.rows),
              columnas |-> Len(d.dataframe.t.columns)])

\* DataFrame.describe(include="all"): the "count" row (non-missing cells)
Describe(t) ==
    [i \in 1..Len(t.columns) |->
        Cardinality({r \in 1..Len(t.rows) : t.rows[r][i].k # "na"})]

\* Dataset.mostrar_resumen_estadistico
mostrar_resumen_estadistico(d) ==
    IF ~d.esta_cargado
    THEN Out(d, "None", "-", <<"no_hay_datos">>, NoVal)
    ELSE Out(d, "DataFrame", "-", <<"resumen_estadistico">>,
             Describe(d.dataframe.t))

\* Dataset.verificar_columnas_requeridas
verificar_columnas_requeridas(d, columnas_requeridas) ==
    IF ~d.esta_cargado
    THEN Out(d, "False", "-", <<>>, NoVal)
    ELSE LET cols == d.dataframe.t.columns
             faltantes == SelectSeq(columnas_requeridas,
                            LAMBDA c : ~\E j \in 1..Len(cols) : cols[j] = c)
         IN  IF faltantes # <<>>
             THEN Out(d, "False", "-", <<"columnas_faltantes">>, faltantes)
             ELSE Out(d, "True", "-", <<"columnas_presentes">>, <<>>)

----------------------------------------------------------------------------
(* Files.  A file is [existe, permiso, bytes, hojas]: bytes are ASCII      *)
(* characters or the byte tokens "xE9", "xC3", "xA9"; hojas is the         *)
(* sequence of sheets [nombre, tabla] when the bytes are a workbook that   *)
(* openpyxl can read, and xls tells a legacy workbook that only            *)
(* pd.ExcelFile's engine detection can open.                               *)

NoAscii == {"xE9", "xC3", "xA9"}

\* open() of the file f at the document's path: the error it raises, "-"
\* if the file opens
Abrir(f) ==
    IF ~f.existe THEN "FileNotFoundError"
    ELSE IF ~f.permiso THEN "PermissionError"
    ELSE "-"

\* bytes.decode("utf-8")
RECURSIVE DecodeUtf8(_)
DecodeUtf8(b) ==
    IF b = <<>> THEN [ok |-> TRUE, texto |-> <<>>]
    ELSE IF Head(b) \notin NoAscii
    THEN LET r == DecodeUtf8(Tail(b))
         IN  [ok |-> r.ok, texto |-> <<Head(b)>> \o r.texto]
    ELSE IF Len(b) >= 2 /\ b[1] = "xC3" /\ b[2] = "xA9"
    THEN LET r == DecodeUtf8(SubSeq(b, 3, Len(b)))
         IN  [ok |-> r.ok, texto |-> <<"e_acute">> \o r.texto]
    ELSE [ok |-> FALSE, texto |-> <<>>]

\* bytes.decode("latin-1"): every byte is a character
DecodeLatin1(b) ==
    [ok |-> TRUE,
     texto |-> [i \in 1..Len(b) |->
                  CASE b[i] = "xE9" -> "e_acute"
                    [] b[i] = "xC3" -> "A_tilde"
                    [] b[i] = "xA9" -> "copyright"
                    [] OTHER -> b[i]]]

\* bytes.decode("ascii")
DecodeAscii(b) ==
    IF \E i \in 1..Len(b) : b[i] \in NoAscii
    THEN [ok |-> FALSE, texto |-> <<>>]
    ELSE [ok |-> TRUE, texto |-> b]

\* decoding under an encoding name; None is the default (UTF-8); a name
\* that is no codec raises LookupError
Decode(b, enc) ==
    CASE enc \in {None, "utf-8"} ->
           LET r == DecodeUtf8(b)
           IN  [exc |-> IF r.ok THEN "-" ELSE "UnicodeDecodeError", texto |-> r.texto]
      [] enc \in {"latin-1", "ISO-8859-1"} ->
           [exc |-> "-", texto |-> DecodeLatin1(b).texto]
      [] enc = "ascii" ->
           LET r == DecodeAscii(b)
           IN  [exc |-> IF r.ok THEN "-" ELSE "UnicodeDecodeError", texto |-> r.texto]
      [] OTHER -> [exc |-> "LookupError", texto |-> <<>>]

\* chardet.detect(muestra)["encoding"]: None for an empty sample, ascii for
\* pure ASCII, utf-8 for valid multi-byte UTF-8, else a single-byte guess
ChardetDetect(muestra) ==
    IF muestra = <<>> THEN None
    ELSE IF DecodeAscii(muestra).ok THEN "ascii"
    ELSE IF DecodeUtf8(muestra).ok THEN "utf-8"
    ELSE "ISO-8859-1"

----------------------------------------------------------------------------
(* pandas.read_csv *)

\* str.split(sep) for a one-character separator
RECURSIVE Split(_, _)
Split(s, sep) ==
    IF \A i \in 1..Len(s) : s[i] # sep THEN <<s>>
    ELSE LET k == CHOOSE i \in 1..Len(s) :
                     s[i] = sep /\ \A j \in 1..(i - 1) : s[j] # sep
         IN  <<SubSeq(s, 1, k - 1)>> \o Split(SubSeq(s, k + 1, Len(s)), sep)

\* skipinitialspace: spaces after the delimiter are dropped
RECURSIVE SkipInitialSpace(_)
SkipInitialSpace(f) ==
    IF f # <<>> /\ Head(f) = " " THEN SkipInitialSpace(Tail(f)) ELSE f

\* the lines of a text that hold something (skip_blank_lines)
Lineas(texto) == SelectSeq(Split(texto, "\n"), LAMBDA l : l # <<>>)

\* the fields of one line
Campos(linea, sep, skip) ==
    LET f == Split(linea, sep)
    IN  [i \in 1..Len(f) |-> IF skip THEN SkipInitialSpace(f[i]) ELSE f[i]]

\* missing-value markers: pandas' defaults that the model's texts can spell
NaDefault == {<<>>, <<"N","A">>, <<"n","a","n">>, <<"N","a","N">>,
              <<"N","U","L","L">>, <<"n","u","l","l">>,
              <<"N","/","A">>, <<"n","/","a">>}
\* na_values of DatasetCSV._leer_archivo_csv
NaValuesCSV == {<<>>, <<"N","/","A">>, <<"N","U","L","L">>, <<"n","u","l","l">>,
                <<"N","a","N">>, <<"n","/","a">>}
\* na_values of DatasetExcel._leer_archivo_excel
NaValuesExcel == {<<>>, <<"N","/","A">>, <<"N","U","L","L">>,
                  <<"n","u","l","l">>, <<"N","a","N">>}

Digitos == <<"0","1","2","3","4","5","6","7","8","9">>
EsDigito(c) == \E i \in 1..Len(Digitos) : Digitos[i] = c
EsNumero(f) == f # <<>> /\ \A i \in 1..Len(f) : EsDigito(f[i])

\* the digits of an integer without leading zeros
RECURSIVE SinCeros(_)
SinCeros(f) == IF Len(f) > 1 /\ Head(f) = "0" THEN SinCeros(Tail(f)) ELSE f

\* header names: an empty name is "Unnamed: i", a repeated one gets ".k"
NombreColumna(h, i) ==
    LET previos == Cardinality({j \in 1..(i - 1) : h[j] = h[i]})
    IN  IF h[i] = <<>>
        THEN <<"U","n","n","a","m","e","d",":"," ">> \o <<Digitos[i]>>
        ELSE IF previos > 0 THEN h[i] \o <<".", Digitos[previos + 1]>>
        ELSE h[i]

\* field j of a data line, padded with missing values
CampoDe(campos, j) == IF j <= Len(campos) THEN campos[j] ELSE <<>>

\* the number of surplus leading fields of the first data line: pandas
\* takes them as an implicit index
Lead(h, ds) == IF ds # <<>> /\ Len(ds[1]) > Len(h) THEN Len(ds[1]) - Len(h) ELSE 0

\* the fields under the header's columns, short lines padded
Crudo(h, ds, lead) ==
    [r \in 1..Len(ds) |-> [j \in 1..Len(h) |-> CampoDe(ds[r], lead + j)]]

\* type inference: a column whose values are all numbers or missing
EsNumerica(raw, j, na) ==
    /\ raw # <<>>
    /\ \A r \in 1..Len(raw) : raw[r][j] \in na \/ EsNumero(raw[r][j])

\* the parsed table of header h and raw fields raw
TablaDe(h, raw, na) ==
    [columns |-> [j \in 1..Len(h) |-> NombreColumna(h, j)],
     dtypes  |-> [j \in 1..Len(h) |->
                    IF EsNumerica(raw, j, na) THEN "number" ELSE "object"],
     rows    |-> [r \in 1..Len(raw) |-> [j \in 1..Len(h) |->
                    IF raw[r][j] \in na THEN NA
                    ELSE IF EsNumerica(raw, j, na) THEN Num(SinCeros(raw[r][j]))
                    ELSE Txt(raw[r][j])]]]

\* the tokenizer's check: from the second data line on, a line with more
\* fields than the widest of the header and the first data line is an error
LineaSobrante(h, ds) ==
    \E r \in 2..Len(ds) :
        Len(ds[r]) > (IF Len(ds[1]) > Len(h) THEN Len(ds[1]) ELSE Len(h))

SinTabla == [columns |-> <<>>, dtypes |-> <<>>, rows |-> <<>>]

\* read_csv once the lines are tokenized into header h and data lines ds
ReadCsvCampos(h, ds, na) ==
    IF LineaSobrante(h, ds)
    THEN [exc |-> "ParserError", t |-> SinTabla]
    ELSE [exc |-> "-", t |-> TablaDe(h, Crudo(h, ds, Lead(h, ds)), na)]

\* the data lines read: nrows = 0 reads every row
FilasLeidas(ls, nrows) ==
    IF nrows = 0 THEN Len(ls) - 1 ELSE Min(nrows, Len(ls) - 1)

\* read_csv once the text is split into its lines ls
ReadCsvLineas(ls, sep, na, skip, nrows) ==
    IF ls = <<>> THEN [exc |-> "EmptyDataError", t |-> SinTabla]
    ELSE ReadCsvCampos(Campos(ls[1], sep, skip),
                       [r \in 1..FilasLeidas(ls, nrows) |-> Campos(ls[r + 1], sep, skip)],
                       na)

\* read_csv once the bytes are decoded
ReadCsvTexto(dec, sep, na, skip, nrows) ==
    IF dec.exc # "-" THEN [exc |-> dec.exc, t |-> SinTabla]
    ELSE ReadCsvLineas(Lineas(dec.texto), sep, na, skip, nrows)

\* pd.read_csv(ruta, sep, encoding, na_values, skipinitialspace, nrows):
\* [exc, t]
ReadCsv(f, sep, enc, na, skip, nrows) ==
    IF Abrir(f) # "-" THEN [exc |-> Abrir(f), t |-> SinTabla]
    ELSE ReadCsvTexto(Decode(f.bytes, enc), sep, na, skip, nrows)

----------------------------------------------------------------------------
(* DatasetCSV (src/domain/dataset_csv.py) *)

\* Python's  a or b
Or(a, b) == IF Truthy(a) THEN a ELSE b

\* archivo.read(10000)
MuestraBytes == 10000
\* pd.read_csv(..., nrows=5)
FilasPrueba == 5

\* DatasetCSV.__init__
DatasetCSVInit(ruta, sep, cod) ==
    [DatasetInit(ruta) EXCEPT !.separador = sep, !.codificacion = cod]

\* the separador property
Separador(d) == Or(d.separador, d.separador_detectado)
\* the codificacion property
Codificacion(d) == Or(d.codificacion, d.codificacion_detectada)

ExtensionesCSV == <<<<".","c","s","v">>, <<".","t","x","t">>, <<".","t","s","v">>>>
ExtensionesExcel == <<<<".","x","l","s","x">>, <<".","x","l","s">>, <<".","x","l","s","m">>>>

\* the loop of _validar_extension_csv / _validar_extension_excel
ExtensionReconocida(ruta, extensiones) ==
    \E i \in 1..Len(extensiones) : EndsWith(Lower(ruta), extensiones[i])

\* DatasetCSV._validar_extension_csv: True on both paths
validar_extension_csv(d) ==
    IF ExtensionReconocida(d.ruta_archivo, ExtensionesCSV)
    THEN [ret |-> TRUE, diag |-> <<>>]
    ELSE [ret |-> TRUE, diag |-> <<"extension_no_reconocida">>]

\* DatasetCSV._detectar_codificacion
detectar_codificacion(f, d) ==
    LET ab == Abrir(f)
    IN  IF ab # "-"
        THEN [d |-> [d EXCEPT !.codificacion_detectada = "utf-8"],
              diag |-> <<"detectando_codificacion", "no_se_pudo_detectar_codificacion">>]
        ELSE LET b == f.bytes
                 muestra == SubSeq(b, 1, Min(MuestraBytes, Len(b)))
             IN  [d |-> [d EXCEPT !.codificacion_detectada = ChardetDetect(muestra)],
                  diag |-> <<"detectando_codificacion", "codificacion_detectada">>]

separadores_comunes == <<",", ";", "\t", "|">>

\* len(df_prueba.columns), or -1 when the trial parse raised
NumColumnas(r) == IF r.exc # "-" THEN -1 ELSE Len(r.t.columns)

\* the trial parse of one candidate: its column count, or -1 if it raised
ColumnasPrueba(f, d, sep) ==
    NumColumnas(ReadCsv(f, sep, Codificacion(d), NaDefault,
                        FALSE, FilasPrueba))

\* if num_columnas > max_columnas, written with >= (mutant)
MejoraUltimo(num_columnas, max_columnas) == num_columnas >= max_columnas

\* if num_columnas > max_columnas
Mejora(num_columnas, max_columnas) == num_columnas > max_columnas

\* the loop of _detectar_separador from candidate i on: [sep, max]
RECURSIVE MejorSeparador(_, _, _, _)
MejorSeparador(cols, i, mejor_separador, max_columnas) ==
    IF i > Len(separadores_comunes) THEN mejor_separador
    ELSE IF Mejora(cols[i], max_columnas)
    THEN MejorSeparador(cols, i + 1, separadores_comunes[i], cols[i])
    ELSE MejorSeparador(cols, i + 1, mejor_separador, max_columnas)

\* the column count of every candidate's trial parse
ColumnasPorSeparador(f, d) ==
    [i \in 1..Len(separadores_comunes) |-> ColumnasPrueba(f, d, separadores_comunes[i])]

\* with open(ruta, "r", encoding=...) and the five readline() calls: the
\* error they raise, "-" if none (the text layer decodes a buffer of 8 KB
\* at the first readline(), which holds the whole of the model's files)
LeerMuestra(f, d) ==
    LET ab == Abrir(f)
    IN  IF ab # "-" THEN ab ELSE Decode(f.bytes, Codificacion(d)).exc

\* DatasetCSV._detectar_separador
detectar_separador(f, d) ==
    IF LeerMuestra(f, d) # "-"
    THEN [d |-> [d EXCEPT !.separador_detectado = ","],
          diag |-> <<"detectando_separador", "no_se_pudo_detectar_separador">>]
    ELSE [d |-> [d EXCEPT !.separador_detectado =
                    MejorSeparador(ColumnasPorSeparador(f, d), 1, ",", 0)],
          diag |-> <<"detectando_separador", "separador_detectado">>]

\* the try/except of _leer_archivo_csv around read_csv's outcome r
LeidoCSV(r) ==
    IF r.exc # "-"
    THEN [df |-> NoDF, diag |-> <<"error_al_leer">>, hoja |-> None]
    ELSE [df |-> DF(r.t), diag |-> <<>>, hoja |-> None]

\* DatasetCSV._leer_archivo_csv: [df, diag], df = NoDF when the read raised
leer_archivo_csv(f, d) ==
    LeidoCSV(ReadCsv(f, Separador(d), Codificacion(d),
                     NaDefault \cup NaValuesCSV, TRUE, 0))

\* cargar_datos after limpiar_y_transformar_datos returned l
TrasLimpiar(l, diag, val) ==
    IF l.exc # "-"
    THEN Out(l.d, "-", l.exc, diag \o l.diag, val)
    ELSE Out(l.d, "True", "-", diag \o l.diag, val)

\* cargar_datos cleaning whatever validar_integridad_datos returned (mutant)
TrasValidarSiempreLimpia(v, diag, val) ==
    IF v.exc # "-" THEN Out(v.d, "-", v.exc, diag \o v.diag, val)
    ELSE TrasLimpiar(limpiar_y_transformar_datos(v.d), diag \o v.diag, val)

\* cargar_datos never cleaning the table it validated (mutant)
TrasValidarNuncaLimpia(v, diag, val) ==
    IF v.exc # "-" THEN Out(v.d, "-", v.exc, diag \o v.diag, val)
    ELSE Out(v.d, "True", "-", diag \o v.diag, val)

\* cargar_datos after validar_integridad_datos returned v: clean if valid
TrasValidar(v, diag, val) ==
    IF v.exc # "-" THEN Out(v.d, "-", v.exc, diag \o v.diag, val)
    ELSE IF v.ret # "True" THEN Out(v.d, "True", "-", diag \o v.diag, val)
    ELSE TrasLimpiar(limpiar_y_transformar_datos(v.d), diag \o v.diag, val)

\* cargar_datos after the setter returned s
TrasAlmacenar(s, diag, val) ==
    IF s.exc # "-" THEN Out(s.d, "-", s.exc, diag, val)
    ELSE TrasValidar(validar_integridad_datos(s.d),
                     diag \o <<"cargado_exitosamente">>, val)

\* the part of cargar_datos that both loaders share: store the table read,
\* validate it, clean it if it is valid
AlmacenarValidarLimpiar(d, df, diag, val) ==
    IF df = NoDF
    THEN Out(d, "False", "-", diag \o <<"no_se_pudieron_cargar">>, val)
    ELSE TrasAlmacenar(SetDataframe(d, df), diag, val)

\* the except clauses of cargar_datos without "except Exception" (mutant)
ExceptCargarSinGenerico(o) ==
    IF o.exc \in {"FileNotFoundError", "PermissionError", "UnicodeDecodeError"}
    THEN Out(o.d, "False", "-", o.diag \o <<"error_" \o o.exc>>, o.val)
    ELSE o

\* the except clauses of cargar_datos: every Exception returns False
ExceptCargar(o) ==
    IF o.exc = "-" THEN o
    ELSE IF o.exc \in {"FileNotFoundError", "PermissionError", "UnicodeDecodeError"}
    THEN Out(o.d, "False", "-", o.diag \o <<"error_" \o o.exc>>, o.val)
    ELSE Out(o.d, "False", "-", o.diag \o <<"error_inesperado">>, o.val)

\* the try block after the delimiter step s: read, store, validate, clean
CargarCSVLeido(s, l, diag) ==
    AlmacenarValidarLimpiar(s.d, l.df, diag \o s.diag \o l.diag, NoVal)

CargarCSVLeer(f, s, diag) == CargarCSVLeido(s, leer_archivo_csv(f, s.d), diag)

\* the try block after the encoding step c: detect the delimiter if none
CargarCSVSeparador(f, c, diag) ==
    CargarCSVLeer(f,
                  IF ~Truthy(c.d.separador) THEN detectar_separador(f, c.d)
                  ELSE [d |-> c.d, diag |-> <<>>],
                  diag \o c.diag)

\* the try block after the extension check e: detect the encoding if none
CargarCSVCodificacion(f, d, e) ==
    IF ~e.ret THEN Out(d, "False", "-", <<"iniciando_carga">> \o e.diag, NoVal)
    ELSE CargarCSVSeparador(f,
                            IF ~Truthy(d.codificacion) THEN detectar_codificacion(f, d)
                            ELSE [d |-> d, diag |-> <<>>],
                            <<"iniciando_carga">> \o e.diag)

\* the try block of DatasetCSV.cargar_datos
cargar_datos_csv_try(f, d) == CargarCSVCodificacion(f, d, validar_extension_csv(d))

\* DatasetCSV.cargar_datos
cargar_datos_csv(f, d) == ExceptCargar(cargar_datos_csv_try(f, d))

\* a call's outcome with a line printed before it
Tras(linea, o) == [o EXCEPT !.diag = <<linea>> \o o.diag]

\* the two assignments of cambiar_parametros_carga
ConSeparador(d, nuevo_separador) ==
    IF Truthy(nuevo_separador) /\ nuevo_separador # d.separador
    THEN [d EXCEPT !.separador = nuevo_separador] ELSE d
ConCodificacion(d, nueva_codificacion) ==
    IF Truthy(nueva_codificacion) /\ nueva_codificacion # d.codificacion
    THEN [d EXCEPT !.codificacion = nueva_codificacion] ELSE d

\* cambiar_parametros_carga reloading whatever it is given (mutant)
HayCambiosSiempre(d, nuevo_separador, nueva_codificacion) == TRUE

\* cambios_realizados is not empty
HayCambios(d, nuevo_separador, nueva_codificacion) ==
    \/ Truthy(nuevo_separador) /\ nuevo_separador # d.separador
    \/ Truthy(nueva_codificacion) /\ nueva_codificacion # d.codificacion

\* DatasetCSV.cambiar_parametros_carga
cambiar_parametros_carga(f, d, nuevo_separador, nueva_codificacion) ==
    IF HayCambios(d, nuevo_separador, nueva_codificacion)
    THEN Tras("aplicando_cambios",
              cargar_datos_csv(f, ConCodificacion(ConSeparador(d, nuevo_separador),
                                                   nueva_codificacion)))
    ELSE Out(d, "False", "-", <<"sin_cambios">>, NoVal)

----------------------------------------------------------------------------
(* DatasetExcel (src/domain/dataset_excel.py) *)

\* DatasetExcel.__init__
DatasetExcelInit(ruta, hoja) == [DatasetInit(ruta) EXCEPT !.nombre_hoja = hoja]

\* DatasetExcel._validar_extension_excel: True on both paths
validar_extension_excel(d) ==
    IF ExtensionReconocida(d.ruta_archivo, ExtensionesExcel)
    THEN [ret |-> TRUE, diag |-> <<>>]
    ELSE [ret |-> TRUE, diag |-> <<"extension_no_reconocida">>]

\* pd.ExcelFile(ruta): the error it raises, "-" if the workbook opens
AbrirLibro(f) ==
    LET ab == Abrir(f)
    IN  IF ab # "-" THEN ab
        ELSE IF f.hojas = <<>> THEN "ValueError"
        ELSE "-"

\* archivo_excel.sheet_names
SheetNames(f) == [i \in 1..Len(f.hojas) |-> f.hojas[i].nombre]

\* DatasetExcel._obtener_hojas_disponibles
obtener_hojas_disponibles(f, d) ==
    IF AbrirLibro(f) # "-"
    THEN [d |-> [d EXCEPT !.hojas_disponibles = <<>>],
          diag |-> <<"no_se_pudieron_obtener_hojas">>]
    ELSE [d |-> [d EXCEPT !.hojas_disponibles = SheetNames(f)],
          diag |-> <<"hojas_disponibles">>]

EstaEn(x, seq) == \E i \in 1..Len(seq) : seq[i] = x

\* na_values applied to the cells of a sheet
AplicarNA(t, na) ==
    [t EXCEPT !.rows = [r \in 1..Len(t.rows) |-> [j \in 1..Len(t.columns) |->
        IF t.rows[r][j].k = "s" /\ t.rows[r][j].v \in na THEN NA ELSE t.rows[r][j]]]]

\* sheet_name=0: the first sheet of the workbook
PrimeraHoja == "<0>"

\* sheet_name=0 read as the last sheet of the workbook (mutant)
IndiceHojaUltima(hs, sheet_name) ==
    IF sheet_name = PrimeraHoja THEN Len(hs)
    ELSE CHOOSE k \in 1..Len(hs) : hs[k].nombre = sheet_name

\* the position of the sheet that sheet_name selects
IndiceHoja(hs, sheet_name) ==
    IF sheet_name = PrimeraHoja THEN 1
    ELSE CHOOSE k \in 1..Len(hs) : hs[k].nombre = sheet_name

\* the table parsed from one sheet
HojaLeida(hoja, na) ==
    [exc |-> "-", t |-> AplicarNA(hoja.tabla, na), hoja |-> hoja.nombre]

\* pd.read_excel(ruta, engine="openpyxl", sheet_name=..., na_values=...):
\* sheet_name is a name, or PrimeraHoja
ReadExcel(f, sheet_name, na) ==
    IF AbrirLibro(f) # "-"
    THEN [exc |-> AbrirLibro(f), t |-> SinTabla, hoja |-> None]
    ELSE IF f.xls
    THEN [exc |-> "InvalidFileException", t |-> SinTabla, hoja |-> None]
    ELSE HojaLeida(f.hojas[IndiceHoja(f.hojas, sheet_name)], na)

\* _leer_archivo_excel always reading the first sheet (mutant)
SheetNameParamPrimera(d) == PrimeraHoja

\* the sheet_name that _leer_archivo_excel passes to read_excel
SheetNameParam(d) ==
    IF Truthy(d.nombre_hoja) /\ EstaEn(d.nombre_hoja, d.hojas_disponibles)
    THEN d.nombre_hoja
    ELSE PrimeraHoja

\* the warning of _leer_archivo_excel for a sheet that is not known
AvisoHoja(d) ==
    IF Truthy(d.nombre_hoja) /\ ~EstaEn(d.nombre_hoja, d.hojas_disponibles)
    THEN <<"hoja_no_existe">> ELSE <<>>

\* the try/except of _leer_archivo_excel around read_excel's outcome r
LeidoExcel(r, aviso) ==
    IF r.exc # "-"
    THEN [df |-> NoDF, diag |-> aviso \o <<"error_al_leer">>, hoja |-> None]
    ELSE [df |-> DF(r.t), diag |-> aviso, hoja |-> r.hoja]

\* DatasetExcel._leer_archivo_excel: [df, diag, hoja], df = NoDF when the
\* read raised, hoja the sheet that was parsed
leer_archivo_excel(f, d) ==
    LeidoExcel(ReadExcel(f, SheetNameParam(d),
                         NaDefault \cup NaValuesExcel),
               AvisoHoja(d))

\* the try block after the sheet read l
CargarExcelLeido(h, l, diag) ==
    AlmacenarValidarLimpiar(h.d, l.df, diag \o h.diag \o l.diag, <<l.hoja>>)

\* the try block after the sheet enumeration h
CargarExcelLeer(f, h, diag) == CargarExcelLeido(h, leer_archivo_excel(f, h.d), diag)

\* the try block after the extension check e
CargarExcelHojas(f, d, e) ==
    IF ~e.ret THEN Out(d, "False", "-", <<"iniciando_carga">> \o e.diag, NoVal)
    ELSE CargarExcelLeer(f, obtener_hojas_disponibles(f, d),
                         <<"iniciando_carga">> \o e.diag)

\* the try block of DatasetExcel.cargar_datos
cargar_datos_excel_try(f, d) == CargarExcelHojas(f, d, validar_extension_excel(d))

\* DatasetExcel.cargar_datos
cargar_datos_excel(f, d) == ExceptCargar(cargar_datos_excel_try(f, d))

\* cambiar_hoja without its two early returns (mutant)
cambiar_hoja_sin_comprobar(f, d, nuevo_nombre_hoja) ==
    Tras("cambiando_de_hoja",
         cargar_datos_excel(f, [d EXCEPT !.nombre_hoja = nuevo_nombre_hoja]))

\* DatasetExcel.cambiar_hoja
cambiar_hoja(f, d, nuevo_nombre_hoja) ==
    IF d.hojas_disponibles = <<>>
    THEN Out(d, "False", "-", <<"sin_informacion_de_hojas">>, NoVal)
    ELSE IF ~EstaEn(nuevo_nombre_hoja, d.hojas_disponibles)
    THEN Out(d, "False", "-", <<"hoja_no_existe">>, NoVal)
    ELSE Tras("cambiando_de_hoja",
              cargar_datos_excel(f, [d EXCEPT !.nombre_hoja = nuevo_nombre_hoja]))

\* cargar_datos of the document's class
cargar_datos(f, d, t) ==
    IF t = "csv" THEN cargar_datos_csv(f, d) ELSE cargar_datos_excel(f, d)

----------------------------------------------------------------------------
(* The files and tables of the model *)

Archivo(bytes) ==
    [existe |-> TRUE, permiso |-> TRUE, bytes |-> bytes, hojas |-> <<>>, xls |-> FALSE]
Libro(hojas, xls) ==
    [existe |-> TRUE, permiso |-> TRUE, bytes |-> <<"P","K","xE9">>,
     hojas |-> hojas, xls |-> xls]

Tabla(columns, dtypes, rows) == [columns |-> columns, dtypes |-> dtypes, rows |-> rows]

X == <<"x">>
HojaQ1 == Tabla(<<<<"I","d">>, <<"N","o","m","-","b","r","e">>>>, <<"number", "object">>,
                <<<<Num(<<"1">>), Txt(<<" ","x">>)>>, <<Num(<<"2">>), Txt(X)>>>>)
HojaQ2 == Tabla(<<<<"I","d">>>>, <<"object">>,
                <<<<Txt(<<"N","U","L","L">>)>>, <<Txt(X)>>>>)

\* paths
d_csv    == <<"d",".","c","s","v">>
t_csv    == <<"t",".","C","S","V">>
s_txt    == <<"s",".","t","x","t">>
p_dat    == <<"p",".","d","a","t">>
w_csv    == <<"w",".","c","s","v">>
c_csv    == <<"c",".","c","s","v">>
l_csv    == <<"l",".","c","s","v">>
e_csv    == <<"e",".","c","s","v">>
no_csv   == <<"n","o",".","c","s","v">>
priv_csv == <<"p","r",".","c","s","v">>
v_xlsx   == <<"v",".","x","l","s","x">>
o_xls    == <<"o",".","x","l","s">>
no_xlsx  == <<"n","o",".","x","l","s","x">>

ArchivosIniciales ==
    (d_csv :> Archivo(<<"a",",","b","\n","1",",","2","\n","1",",","2","\n">>))
    @@ (t_csv :> Archivo(<<"x",",","y",",","z","\n","1",",","2",",","3","\n">>))
    @@ (s_txt :> Archivo(<<"a",";","b",";","c","\n","1",",","5",";","2",";","3","\n">>))
    @@ (p_dat :> Archivo(<<"A"," ","B","|","P","-","T","\n"," ","x"," ","|","7","\n",
                           "x","|","8","\n">>))
    @@ (w_csv :> Archivo(<<"n","\n","x"," ","\n","x","\n">>))
    @@ (c_csv :> Archivo(<<"A",",","a","\n","x",",","y","\n">>))
    @@ (l_csv :> Archivo(<<"n",";","m","\n","xE9",";","1","\n">>))
    @@ (e_csv :> Archivo(<<>>))
    @@ (no_csv :> [Archivo(<<>>) EXCEPT !.existe = FALSE])
    @@ (priv_csv :> [Archivo(<<"a","\n","1","\n">>) EXCEPT !.permiso = FALSE])
    @@ (v_xlsx :> Libro(<<[nombre |-> "Q1", tabla |-> HojaQ1],
                          [nombre |-> "Q2", tabla |-> HojaQ2]>>, FALSE))
    @@ (o_xls :> Libro(<<[nombre |-> "Q1", tabla |-> HojaQ1]>>, TRUE))
    @@ (no_xlsx :> [Archivo(<<>>) EXCEPT !.existe = FALSE])

RutasCSV == {d_csv, t_csv, s_txt, p_dat, w_csv, c_csv, l_csv, e_csv, no_csv,
             priv_csv, v_xlsx}
RutasExcel == {v_xlsx, o_xls, no_xlsx, d_csv}

\* the arguments of the constructors and of the re-parameterising calls
SeparadoresDados == {None, ";"}
CodificacionesDadas == {None, "utf-8", "latin-1"}
HojasDadas == {None, "Q1", "Q2", "Q3"}

\* the tables assigned through the setter
TablaEspacios == Tabla(<<<<"A"," ","b">>>>, <<"object">>,
                       <<<<Txt(<<" ","x">>)>>, <<Txt(X)>>>>)
TablaNulos == Tabla(<<<<"a">>, <<"b">>>>, <<"object", "number">>,
                    <<<<NA, Num(<<"1">>)>>, <<NA, Num(<<"1">>)>>>>)
TablaVacia == Tabla(<<<<"a">>>>, <<"object">>, <<>>)
TablasSetter == {TablaEspacios, TablaNulos, TablaVacia}
ValoresSetter == {NoDF, NoTabla} \cup {DF(t) : t \in TablasSetter}

\* the column sets asked of verificar_columnas_requeridas
ColumnasPedidas == {<<<<"a">>>>, <<<<"a">>, <<"b">>>>, <<<<"x">>, <<"y">>>>}

----------------------------------------------------------------------------
(* The state machine *)

\* the object as a record
Doc ==
    [ruta_archivo |-> ruta_archivo, dataframe |-> dataframe,
     esta_cargado |-> esta_cargado, separador |-> separador,
     codificacion |-> codificacion, separador_detectado |-> separador_detectado,
     codificacion_detectada |-> codificacion_detectada,
     nombre_hoja |-> nombre_hoja, hojas_disponibles |-> hojas_disponibles]

\* the object and the record of the call after a method returned o
Llamada(op, arg, o) ==
    /\ ruta_archivo' = o.d.ruta_archivo
    /\ dataframe' = o.d.dataframe
    /\ esta_cargado' = o.d.esta_cargado
    /\ separador' = o.d.separador
    /\ codificacion' = o.d.codificacion
    /\ separador_detectado' = o.d.separador_detectado
    /\ codificacion_detectada' = o.d.codificacion_detectada
    /\ nombre_hoja' = o.d.nombre_hoja
    /\ hojas_disponibles' = o.d.hojas_disponibles
    /\ res' = [op |-> op, arg |-> arg, ret |-> o.ret, exc |-> o.exc,
               diag |-> o.diag, val |-> o.val, antes |-> Doc]
    /\ UNCHANGED <<archivo, tipo>>

Construido(t, d, f) ==
    /\ archivo = f
    /\ tipo = t
    /\ ruta_archivo = d.ruta_archivo
    /\ dataframe = d.dataframe
    /\ esta_cargado = d.esta_cargado
    /\ separador = d.separador
    /\ codificacion = d.codificacion
    /\ separador_detectado = d.separador_detectado
    /\ codificacion_detectada = d.codificacion_detectada
    /\ nombre_hoja = d.nombre_hoja
    /\ hojas_disponibles = d.hojas_disponibles
    /\ res = [op |-> "init", arg |-> NoVal, ret |-> "-", exc |-> "-",
              diag |-> <<>>, val |-> NoVal, antes |-> d]

Init ==
    \/ \E r \in RutasCSV, s \in SeparadoresDados, c \in CodificacionesDadas :
            Construido("csv", DatasetCSVInit(r, s, c), ArchivosIniciales[r])
    \/ \E r \in RutasExcel, h \in HojasDadas :
            Construido("excel", DatasetExcelInit(r, h), ArchivosIniciales[r])

AsignarDataframe ==
    \E v \in ValoresSetter : Llamada("dataframe", v, SetDataframe(Doc, v))

CargarDatos == Llamada("cargar_datos", NoVal, cargar_datos(archivo, Doc, tipo))

ValidarIntegridadDatos ==
    Llamada("validar_integridad_datos", NoVal, validar_integridad_datos(Doc))

LimpiarYTransformarDatos ==
    Llamada("limpiar_y_transformar_datos", NoVal, limpiar_y_transformar_datos(Doc))

ObtenerInformacionBasica ==
    Llamada("obtener_informacion_basica", NoVal, obtener_informacion_basica(Doc))

MostrarResumenEstadistico ==
    Llamada("mostrar_resumen_estadistico", NoVal, mostrar_resumen_estadistico(Doc))

VerificarColumnasRequeridas ==
    \E cs \in ColumnasPedidas :
        Llamada("verificar_columnas_requeridas", cs,
                verificar_columnas_requeridas(Doc, cs))

CambiarParametrosCarga ==
    /\ tipo = "csv"
    /\ \E s \in SeparadoresDados, c \in CodificacionesDadas :
        Llamada("cambiar_parametros_carga", <<s, c>>,
                cambiar_parametros_carga(archivo, Doc, s, c))

CambiarHoja ==
    /\ tipo = "excel"
    /\ \E h \in HojasDadas \ {None} :
        Llamada("cambiar_hoja", h, cambiar_hoja(archivo, Doc, h))

Next ==
    \/ AsignarDataframe
    \/ CargarDatos
    \/ ValidarIntegridadDatos
    \/ LimpiarYTransformarDatos
    \/ ObtenerInformacionBasica
    \/ MostrarResumenEstadistico
    \/ VerificarColumnasRequeridas
    \/ CambiarParametrosCarga
    \/ CambiarHoja

Spec == Init /\ [][Next]_vars

----------------------------------------------------------------------------
(* SpecTablas: the table methods on every table of a bounded family.  The  *)
(* document starts with the table assigned through the setter.             *)

\* all sequences over S of length at most n
RECURSIVE SeqHasta(_, _)
SeqHasta(S, n) ==
    IF n = 0 THEN {<<>>}
    ELSE LET menores == SeqHasta(S, n - 1)
         IN  menores \cup {Append(q, x) : q \in {m \in menores : Len(m) = n - 1}, x \in S}

\* column names, dtypes and the cells each column draws from
Esquemas ==
    { [columns |-> <<<<"T","o","t","a","l"," ","A","m","o","u","n","t">>,
                     <<"P","r","e","-","T","a","x">>>>,
       dtypes  |-> <<"object", "number">>,
       celdas  |-> <<{NA, Txt(<<" ","x">>), Txt(X)}, {NA, Num(<<"1">>)}>>],
      [columns |-> <<<<"a">>>>,
       dtypes  |-> <<"object">>,
       celdas  |-> <<{NA, Txt(X), Txt(<<" ","x">>), Txt(<<"x"," ">>),
                      Txt(<<"n","a","n">>)}>>],
      [columns |-> <<<<"A">>, <<"a">>>>,
       dtypes  |-> <<"object", "object">>,
       celdas  |-> <<{Txt(X), Txt(<<" ","x">>)}, {Txt(X)}>>] }

FilasDe(e) ==
    {f \in [1..Len(e.columns) -> UNION {e.celdas[j] : j \in 1..Len(e.columns)}] :
        \A j \in 1..Len(e.columns) : f[j] \in e.celdas[j]}

TablasAcotadas ==
    UNION {{Tabla(e.columns, e.dtypes, rs) : rs \in SeqHasta(FilasDe(e), MaxRows)} :
           e \in Esquemas}

InitTablas ==
    \E t \in TablasAcotadas :
        Construido("csv", SetDataframe(DatasetCSVInit(no_csv, None, None), DF(t)).d,
                   ArchivosIniciales[no_csv])

NextTablas ==
    \/ ValidarIntegridadDatos
    \/ LimpiarYTransformarDatos

SpecTablas == InitTablas /\ [][NextTablas]_vars

----------------------------------------------------------------------------
(* SpecArchivo: loading a delimited file whose lines are drawn from a      *)
(* bounded family, with no explicit delimiter or encoding.                 *)

LineasPosibles ==
    { <<"a">>,
      <<"a",",","b">>,
      <<"a",";","b">>,
      <<"a",",","b",";","c",";","d">>,
      <<"a","|","b","\t","c">>,
      <<"a",",","b",";","c">> }

\* the lines, each ended by a newline
RECURSIVE UnirLineas(_)
UnirLineas(ls) ==
    IF ls = <<>> THEN <<>> ELSE Head(ls) \o <<"\n">> \o UnirLineas(Tail(ls))

m_csv == <<"m",".","c","s","v">>

InitArchivo ==
    \/ \E ls \in SeqHasta(LineasPosibles, MaxLineas) :
        Construido("csv", DatasetCSVInit(m_csv, None, None),
                   Archivo(UnirLineas(ls)))
    \/ \E f \in {ArchivosIniciales[no_csv], ArchivosIniciales[priv_csv],
                  ArchivosIniciales[l_csv]} :
        Construido("csv", DatasetCSVInit(m_csv, None, "utf-8"), f)

NextArchivo == CargarDatos

SpecArchivo == InitArchivo /\ [][NextArchivo]_vars

----------------------------------------------------------------------------
(* Properties *)

Cargado == dataframe # NoDF
OpsCarga == {"cargar_datos"}
Limpio == res.op = "limpiar_y_transformar_datos"
Validado == res.op = "validar_integridad_datos"

\* C1: esta_cargado is true exactly when the dataframe is not None, in
\* every state that a sequence of public operations reaches.
C1_CargadoSiiDataframe == esta_cargado <=> dataframe # NoDF

\* C1 witness: the setter assigned None to a document that held a table
C1_Witness ==
    /\ res.op = "dataframe"
    /\ res.antes.esta_cargado
    /\ res.arg = NoDF
    /\ ~esta_cargado

\* the lines cargar_datos prints when a stage of the load raised
FallosDeEtapa ==
    {"no_se_pudo_detectar_codificacion", "no_se_pudo_detectar_separador",
     "no_se_pudieron_obtener_hojas", "error_al_leer", "no_se_pudieron_cargar",
     "error_inesperado", "error_FileNotFoundError", "error_PermissionError",
     "error_UnicodeDecodeError"}

HuboFallo(diag) == \E i \in 1..Len(diag) : diag[i] \in FallosDeEtapa

\* C2: cargar_datos of either loader raises nothing: it returns True or
\* False, and it returns False whenever a stage of it raised (encoding or
\* delimiter detection, sheet enumeration, the read, validation, cleaning)
\* and whenever the file does not exist or cannot be opened.
C2_CargaNoPropaga ==
    res.op \in OpsCarga =>
        /\ res.exc = "-"
        /\ res.ret \in {"True", "False"}
        /\ (HuboFallo(res.diag) => res.ret = "False")
        /\ (~archivo.existe \/ ~archivo.permiso => res.ret = "False")

\* C2 witness: cleaning raised inside a load, and the load returned False
C2_Witness ==
    /\ res.op = "cargar_datos"
    /\ EstaEn("iniciando_limpieza", res.diag)
    /\ EstaEn("error_inesperado", res.diag)
    /\ res.ret = "False"

\* C2 second witness: a nonexistent path
C2_WitnessNoExiste ==
    /\ res.op = "cargar_datos"
    /\ ~archivo.existe
    /\ res.ret = "False"

\* C3 (as claimed): limpiar_y_transformar_datos is idempotent: once it has
\* run, running it again leaves the table as it is.
C3_LimpiarIdempotente ==
    (Limpio /\ res.ret = "True") =>
        limpiar_y_transformar_datos(Doc).d.dataframe = dataframe

\* the delimited input "a,b\n1,2\n1,2\n"
EntradaDuplicada == <<"a",",","b","\n","1",",","2","\n","1",",","2","\n">>
ColumnasAB == <<<<"a">>, <<"b">>>>

\* C4 (as claimed): after cargar_datos of the input "a,b\n1,2\n1,2\n" the
\* table has exactly 1 row and the columns ["a","b"].
C4_CargaDejaUnaFila ==
    (/\ res.op = "cargar_datos"
     /\ tipo = "csv"
     /\ archivo.bytes = EntradaDuplicada
     /\ ~Truthy(separador)) =>
        /\ Cargado
        /\ Len(dataframe.t.rows) = 1
        /\ dataframe.t.columns = ColumnasAB

\* C4 (amended): cargar_datos of the input "a,b\n1,2\n1,2\n" with the
\* delimiter detected returns True and stores 2 rows under the columns
\* ["a","b"], since validation reports the duplicate and cleaning is
\* skipped; limpiar_y_transformar_datos called on that table then leaves
\* exactly 1 row and the columns ["a","b"].
C4_CargaYLuegoLimpia ==
    /\ (/\ res.op = "cargar_datos"
        /\ tipo = "csv"
        /\ archivo.bytes = EntradaDuplicada
        /\ ~Truthy(separador)) =>
            /\ res.ret = "True"
            /\ Cargado
            /\ Len(dataframe.t.rows) = 2
            /\ dataframe.t.columns = ColumnasAB
            /\ EstaEn("filas_duplicadas", res.diag)
            /\ ~EstaEn("iniciando_limpieza", res.diag)
    /\ (/\ Limpio
        /\ tipo = "csv"
        /\ archivo.bytes = EntradaDuplicada
        /\ ~Truthy(separador)
        /\ res.antes.esta_cargado
        /\ res.antes.dataframe.t.columns = ColumnasAB
        /\ Len(res.antes.dataframe.t.rows) = 2
        /\ res.antes.dataframe.t.dtypes = <<"number", "number">>) =>
            /\ res.ret = "True"
            /\ Len(dataframe.t.rows) = 1
            /\ dataframe.t.columns = ColumnasAB

\* C4 witness: the input was loaded and then cleaned by an explicit call
C4_Witness ==
    /\ Limpio
    /\ tipo = "csv"
    /\ archivo.bytes = EntradaDuplicada
    /\ ~Truthy(separador)
    /\ res.antes.esta_cargado
    /\ Len(res.antes.dataframe.t.rows) = 2
    /\ res.antes.dataframe.t.dtypes = <<"number", "number">>
    /\ Len(dataframe.t.rows) = 1
    /\ dataframe.t.columns = ColumnasAB

MetodosQueRequierenCarga ==
    {"validar_integridad_datos", "limpiar_y_transformar_datos",
     "obtener_informacion_basica", "mostrar_resumen_estadistico",
     "verificar_columnas_requeridas"}

\* C5 (as claimed): every method that needs a loaded table, called without
\* one, returns False or None and raises nothing; and only the assignment of
\* a non-table value to the table raises.
C5_SinTablaNoLanza ==
    /\ (res.op \in MetodosQueRequierenCarga /\ ~res.antes.esta_cargado) =>
            /\ res.exc = "-"
            /\ res.ret \in {"False", "None"}
    /\ (res.exc # "-") =>
            /\ res.op = "dataframe"
            /\ res.arg # NoDF
            /\ ~IsDataFrame(res.arg)

\* C6: assigning a value that is neither None nor a DataFrame raises
\* TypeError and leaves the dataframe and esta_cargado as they were;
\* assigning None or a DataFrame raises nothing and stores the value.
C6_SetterContrato ==
    res.op = "dataframe" =>
        IF res.arg # NoDF /\ ~IsDataFrame(res.arg)
        THEN /\ res.exc = "TypeError"
             /\ dataframe = res.antes.dataframe
             /\ esta_cargado = res.antes.esta_cargado
        ELSE /\ res.exc = "-"
             /\ dataframe = res.arg

\* C6 witness: a non-table value was assigned to a document holding a table
C6_Witness ==
    /\ res.op = "dataframe"
    /\ res.arg = NoTabla
    /\ res.exc = "TypeError"
    /\ res.antes.esta_cargado
    /\ Cargado

\* the three problem classes of a table, stated on its cells and rows
HayFaltantes(t) ==
    \E r \in 1..Len(t.rows) : \E j \in 1..Len(t.columns) : t.rows[r][j] = NA
HayRepetidas(t) ==
    \E i, j \in 1..Len(t.rows) : i < j /\ t.rows[i] = t.rows[j]
EstaVacia(t) == t.rows = <<>>

Veces(x, seq) == Cardinality({i \in 1..Len(seq) : seq[i] = x})

\* C7: on a loaded document validar_integridad_datos returns True exactly
\* when no value is missing, no row repeats another and there is a row; it
\* reports each problem class present once and no other; and it leaves the
\* object as it was.
C7_ValidarIntegridad ==
    (Validado /\ res.antes.esta_cargado) =>
        LET t == res.antes.dataframe.t
        IN  /\ res.exc = "-"
            /\ res.ret = "True" <=>
                    (~HayFaltantes(t) /\ ~HayRepetidas(t) /\ ~EstaVacia(t))
            /\ Veces("valores_faltantes", res.val) = (IF HayFaltantes(t) THEN 1 ELSE 0)
            /\ Veces("filas_duplicadas", res.val) = (IF HayRepetidas(t) THEN 1 ELSE 0)
            /\ Veces("dataset_vacio", res.val) = (IF EstaVacia(t) THEN 1 ELSE 0)
            /\ Len(res.val) = Veces("valores_faltantes", res.val)
                               + Veces("filas_duplicadas", res.val)
                               + Veces("dataset_vacio", res.val)
            /\ res.diag = (IF res.val = <<>> THEN <<"validacion_completada">>
                           ELSE res.val)
            /\ Doc = res.antes

\* C7 witness: a table with missing values and repeated rows was validated
C7_Witness ==
    /\ Validado
    /\ res.antes.esta_cargado
    /\ res.ret = "False"
    /\ res.val = <<"valores_faltantes", "filas_duplicadas">>

TotalAmount == <<"T","o","t","a","l"," ","A","m","o","u","n","t">>
PreTax == <<"P","r","e","-","T","a","x">>
total_amount == <<"t","o","t","a","l","_","a","m","o","u","n","t">>
pre_tax == <<"p","r","e","_","t","a","x">>

EsMayuscula(c) == \E i \in 1..Len(Mayusculas) : Mayusculas[i] = c
EsMinuscula(c) == \E i \in 1..Len(Minusculas) : Minusculas[i] = c

\* new is old in lower case with "_" for every space and hyphen
EsNormalizado(old, new) ==
    /\ Len(new) = Len(old)
    /\ \A k \in 1..Len(old) :
        /\ old[k] \in {" ", "-"} => new[k] = "_"
        /\ EsMayuscula(old[k]) =>
                \E i \in 1..Len(Mayusculas) :
                    old[k] = Mayusculas[i] /\ new[k] = Minusculas[i]
        /\ (~EsMayuscula(old[k]) /\ old[k] \notin {" ", "-"}) => new[k] = old[k]

\* C8: limpiar_y_transformar_datos maps every column name, each on its own,
\* to its lower case with "_" for every space and hyphen, keeping the
\* number and the order of the columns: "Total Amount" becomes
\* "total_amount" and "Pre-Tax" becomes "pre_tax".
C8_NombresNormalizados ==
    (Limpio /\ res.antes.esta_cargado) =>
        LET old == res.antes.dataframe.t.columns
            new == dataframe.t.columns
        IN  /\ Len(new) = Len(old)
            /\ \A i \in 1..Len(old) :
                /\ EsNormalizado(old[i], new[i])
                /\ old[i] = TotalAmount => new[i] = total_amount
                /\ old[i] = PreTax => new[i] = pre_tax
            /\ \A i, j \in 1..Len(old) : old[i] = old[j] => new[i] = new[j]

\* C8 witness: the columns "Total Amount", "Pre-Tax" were cleaned
C8_Witness ==
    /\ Limpio
    /\ res.antes.esta_cargado
    /\ res.antes.dataframe.t.columns = <<TotalAmount, PreTax>>
    /\ dataframe.t.columns = <<total_amount, pre_tax>>

\* the positions of the rows that repeat no earlier row
Primeras(rows) == {i \in 1..Len(rows) : \A j \in 1..(i - 1) : rows[j] # rows[i]}
\* the k-th position of a set of positions
Kesima(P, k) == CHOOSE i \in P : Cardinality({j \in P : j < i}) = k - 1

\* the row as the third step of the cleaning leaves it
FilaLimpia(t, row) ==
    [j \in 1..Len(row) |-> IF t.dtypes[j] = "object" THEN StripCell(row[j]) ELSE row[j]]

\* C9: the rows that limpiar_y_transformar_datos keeps are, for each
\* distinct row of the table, its first occurrence, in the order they had
\* in the table (each then with its text trimmed).
C9_PrimerasOcurrencias ==
    (Limpio /\ res.ret = "True") =>
        LET t == res.antes.dataframe.t
            P == Primeras(t.rows)
        IN  /\ Len(dataframe.t.rows) = Cardinality(P)
            /\ \A k \in 1..Cardinality(P) :
                    dataframe.t.rows[k] = FilaLimpia(t, t.rows[Kesima(P, k)])

\* C9 witness: a table whose third row repeats the first was cleaned
C9_Witness ==
    /\ Limpio
    /\ res.ret = "True"
    /\ Len(res.antes.dataframe.t.rows) = 3
    /\ res.antes.dataframe.t.rows[1] = res.antes.dataframe.t.rows[3]
    /\ res.antes.dataframe.t.rows[1] # res.antes.dataframe.t.rows[2]
    /\ Len(dataframe.t.rows) = 2

Cols == ColumnasPorSeparador(archivo, Doc)
Maximo(cols) == CHOOSE m \in {cols[i] : i \in 1..Len(cols)} :
                    \A i \in 1..Len(cols) : cols[i] <= m

\* C10: the delimiter detected is the first candidate of [",", ";", tab,
\* "|"] whose trial parse yields the greatest column count; it is the comma
\* when every trial parse fails and when the sample cannot be read.
C10_SeparadorDetectado ==
    (res.op = "cargar_datos" /\ tipo = "csv" /\ ~Truthy(separador)) =>
        IF LeerMuestra(archivo, Doc) # "-" \/ Maximo(Cols) = -1
        THEN separador_detectado = ","
        ELSE \E i \in 1..Len(separadores_comunes) :
                /\ separador_detectado = separadores_comunes[i]
                /\ Cols[i] = Maximo(Cols)
                /\ \A j \in 1..(i - 1) : Cols[j] < Cols[i]

\* C10 witness: comma and semicolon tie for the greatest column count
C10_Witness ==
    /\ res.op = "cargar_datos"
    /\ tipo = "csv"
    /\ ~Truthy(separador)
    /\ LeerMuestra(archivo, Doc) = "-"
    /\ Cols[1] = Maximo(Cols)
    /\ Cols[2] = Maximo(Cols)
    /\ Cols[1] >= 2
    /\ separador_detectado = ","

\* a load ran inside the last call; the sheet it parsed (None: the read failed)
HuboCarga == EstaEn("iniciando_carga", res.diag)
HojaParseada == res.val[1]
LibroLeido == tipo = "excel" /\ HuboCarga /\ res.val # NoVal /\ HojaParseada # None

\* C11: a load of a workbook parses the sheet nombre_hoja when it is set and
\* among hojas_disponibles; when it is set but absent it warns and parses
\* the first sheet; when it is not set it parses the first sheet.  For the
\* sheets ["Q1","Q2"] and nombre_hoja = "Q3" the load parses "Q1" and
\* hojas_disponibles is ["Q1","Q2"] afterwards.
C11_SeleccionDeHoja ==
    LibroLeido =>
        /\ hojas_disponibles = [i \in 1..Len(archivo.hojas) |-> archivo.hojas[i].nombre]
        /\ (nombre_hoja # None /\ EstaEn(nombre_hoja, hojas_disponibles)) =>
                /\ HojaParseada = nombre_hoja
                /\ ~EstaEn("hoja_no_existe", res.diag)
        /\ (nombre_hoja # None /\ ~EstaEn(nombre_hoja, hojas_disponibles)) =>
                /\ HojaParseada = archivo.hojas[1].nombre
                /\ EstaEn("hoja_no_existe", res.diag)
        /\ nombre_hoja = None =>
                /\ HojaParseada = archivo.hojas[1].nombre
                /\ ~EstaEn("hoja_no_existe", res.diag)
        /\ (hojas_disponibles = <<"Q1", "Q2">> /\ nombre_hoja = "Q3") =>
                HojaParseada = "Q1"

\* C11 witness: sheets ["Q1","Q2"], nombre_hoja "Q3": "Q1" parsed with a warning
C11_Witness ==
    /\ LibroLeido
    /\ res.op = "cargar_datos"
    /\ nombre_hoja = "Q3"
    /\ hojas_disponibles = <<"Q1", "Q2">>
    /\ HojaParseada = "Q1"
    /\ EstaEn("hoja_no_existe", res.diag)

\* C11 second witness: a sheet that is present and is not the first is parsed
C11_WitnessPresente ==
    /\ LibroLeido
    /\ res.op = "cargar_datos"
    /\ nombre_hoja = "Q2"
    /\ HojaParseada = "Q2"

\* C12: cambiar_hoja returns False without loading and without changing
\* nombre_hoja, hojas_disponibles or the table when hojas_disponibles is
\* empty or the name is not in it; otherwise it sets nombre_hoja to the name
\* and performs a whole cargar_datos, whose result it returns.
C12_CambiarHoja ==
    res.op = "cambiar_hoja" =>
        IF res.antes.hojas_disponibles = <<>>
           \/ ~EstaEn(res.arg, res.antes.hojas_disponibles)
        THEN /\ res.ret = "False"
             /\ res.exc = "-"
             /\ ~HuboCarga
             /\ Doc = res.antes
        ELSE /\ nombre_hoja = res.arg
             /\ HuboCarga
             /\ res.exc = "-"
             /\ res.ret = cargar_datos_excel(archivo, [res.antes EXCEPT !.nombre_hoja = res.arg]).ret
             /\ Doc = cargar_datos_excel(archivo, [res.antes EXCEPT !.nombre_hoja = res.arg]).d

\* C12 witness: from "Q1" loaded, cambiar_hoja("Q2") reloads and returns True
C12_Witness ==
    /\ res.op = "cambiar_hoja"
    /\ res.arg = "Q2"
    /\ res.antes.esta_cargado
    /\ res.antes.nombre_hoja = "Q1"
    /\ nombre_hoja = "Q2"
    /\ res.val = <<"Q2">>
    /\ res.ret = "True"

\* C12 second witness: a name that is not among the known sheets
C12_WitnessAusente ==
    /\ res.op = "cambiar_hoja"
    /\ res.arg = "Q3"
    /\ res.antes.hojas_disponibles = <<"Q1", "Q2">>
    /\ res.antes.nombre_hoja = "Q2"
    /\ res.ret = "False"
    /\ nombre_hoja = "Q2"

\* the arguments of the last cambiar_parametros_carga and what they change
SeparadorPedido == res.arg[1]
CodificacionPedida == res.arg[2]
CambiaSeparador == SeparadorPedido # None /\ SeparadorPedido # res.antes.separador
CambiaCodificacion ==
    CodificacionPedida # None /\ CodificacionPedida # res.antes.codificacion
ConNuevosParametros ==
    [res.antes EXCEPT
        !.separador = IF CambiaSeparador THEN SeparadorPedido ELSE @,
        !.codificacion = IF CambiaCodificacion THEN CodificacionPedida ELSE @]

\* C13: cambiar_parametros_carga changes separador (codificacion) only when
\* a value is given and differs from the current one; if one of them changed
\* it performs a whole cargar_datos and returns its result; if none changed
\* it loads nothing, leaves the object as it was and returns False.
C13_CambiarParametros ==
    res.op = "cambiar_parametros_carga" =>
        /\ separador = IF CambiaSeparador THEN SeparadorPedido ELSE res.antes.separador
        /\ codificacion = IF CambiaCodificacion THEN CodificacionPedida
                          ELSE res.antes.codificacion
        /\ res.exc = "-"
        /\ IF CambiaSeparador \/ CambiaCodificacion
           THEN /\ HuboCarga
                /\ res.ret = cargar_datos_csv(archivo, ConNuevosParametros).ret
                /\ Doc = cargar_datos_csv(archivo, ConNuevosParametros).d
           ELSE /\ ~HuboCarga
                /\ res.ret = "False"
                /\ Doc = res.antes

\* C13 witness: only the delimiter differs; the reload replaces the table
C13_Witness ==
    /\ res.op = "cambiar_parametros_carga"
    /\ res.antes.esta_cargado
    /\ res.antes.separador = None
    /\ res.antes.codificacion = "utf-8"
    /\ res.arg = <<";", "utf-8">>
    /\ separador = ";"
    /\ codificacion = "utf-8"
    /\ res.ret = "True"
    /\ dataframe # res.antes.dataframe

\* C13 second witness: the values given are the current ones
C13_WitnessSinCambios ==
    /\ res.op = "cambiar_parametros_carga"
    /\ res.antes.esta_cargado
    /\ res.arg = <<";", "latin-1">>
    /\ res.antes.separador = ";"
    /\ res.antes.codificacion = "latin-1"
    /\ res.ret = "False"

\* the position of the first of the lines xs in the lines printed, 0 if none
Indice(xs, seq) ==
    IF \E i \in 1..Len(seq) : seq[i] \in xs
    THEN CHOOSE i \in 1..Len(seq) : seq[i] \in xs /\ \A j \in 1..(i - 1) : seq[j] \notin xs
    ELSE 0

LineasDeValidacion ==
    {"validacion_completada", "valores_faltantes", "filas_duplicadas", "dataset_vacio"}

\* the table that the read of the last load returned
TablaParseada ==
    IF tipo = "csv" THEN leer_archivo_csv(archivo, Doc).df
    ELSE leer_archivo_excel(archivo, Doc).df

\* C14: in every load whose read succeeds the table read is stored, then
\* validar_integridad_datos runs on it, and limpiar_y_transformar_datos runs
\* afterwards exactly when the validation returned True; when the validation
\* fails the table stored is the table read, not cleaned, and the load
\* returns True.
C14_OrdenDeCarga ==
    (HuboCarga /\ EstaEn("cargado_exitosamente", res.diag)) =>
        /\ Indice({"cargado_exitosamente"}, res.diag) < Indice(LineasDeValidacion, res.diag)
        /\ EstaEn("iniciando_limpieza", res.diag)
                <=> EstaEn("validacion_completada", res.diag)
        /\ EstaEn("iniciando_limpieza", res.diag) =>
                Indice(LineasDeValidacion, res.diag) < Indice({"iniciando_limpieza"}, res.diag)
        /\ ~EstaEn("validacion_completada", res.diag) =>
                /\ res.ret = "True"
                /\ dataframe = TablaParseada

\* C14 witness: the validation failed on a duplicated row, and the table was
\* stored as read, with the duplicate that a cleaning would have removed
C14_Witness ==
    /\ HuboCarga
    /\ EstaEn("filas_duplicadas", res.diag)
    /\ ~EstaEn("iniciando_limpieza", res.diag)
    /\ res.ret = "True"
    /\ dataframe = TablaParseada
    /\ CountDuplicated(dataframe.t) > 0
    /\ limpiar_y_transformar_datos(Doc).d.dataframe # dataframe

\* C14 second witness: the validation passed and the cleaning changed the table
C14_WitnessLimpia ==
    /\ HuboCarga
    /\ EstaEn("validacion_completada", res.diag)
    /\ EstaEn("transformaciones_aplicadas", res.diag)
    /\ res.ret = "True"
    /\ dataframe # TablaParseada

\* C15 (as claimed): after a cargar_datos with no codificacion given, the
\* encoding in effect is the name of an encoding, never None: a detection
\* that fails in any way leaves "utf-8" as the detected encoding, and the
\* load raises nothing.
C15_CodificacionEfectiva ==
    (tipo = "csv" /\ res.op = "cargar_datos" /\ res.antes.codificacion = None) =>
        /\ res.exc = "-"
        /\ Codificacion(Doc) # None
        /\ (Abrir(archivo) # "-" \/ archivo.bytes = <<>>) =>
                codificacion_detectada = "utf-8"

\* C16 (as claimed): a load that returns False on a document that holds a
\* table leaves that table as it was: the table is replaced only once the
\* new one has been read, validated and cleaned.
C16_TablaSoloTrasExito ==
    (HuboCarga /\ res.ret = "False" /\ res.antes.dataframe # NoDF) =>
        dataframe = res.antes.dataframe

\* C17 (as claimed): after a load in which the validation passed and the
\* cleaning ran, the table is still valid: validar_integridad_datos returns
\* True on it (no duplicated row, no missing value, at least one row).
C17_LimpiaSigueValida ==
    (HuboCarga /\ EstaEn("validacion_completada", res.diag)
               /\ EstaEn("transformaciones_aplicadas", res.diag)) =>
        /\ validar_integridad_datos(Doc).ret = "True"
        /\ ~HayRepetidas(dataframe.t)

\* C18 (as claimed): after a cargar_datos or a cambiar_hoja of a workbook
\* document that left it loaded with nombre_hoja set, the table was parsed
\* from the sheet nombre_hoja, and nombre_hoja is among hojas_disponibles.
C18_HojaSeleccionada ==
    (LibroLeido /\ res.ret = "True" /\ esta_cargado /\ nombre_hoja # None) =>
        /\ HojaParseada = nombre_hoja
        /\ EstaEn(nombre_hoja, hojas_disponibles)

\* C18 (amended): after a cargar_datos or a cambiar_hoja of a workbook
\* document that returned True with nombre_hoja set, the table was parsed
\* from the sheet nombre_hoja if that name is among hojas_disponibles and
\* from the first sheet otherwise (nombre_hoja keeps the absent name); after
\* a cambiar_hoja that returned True nombre_hoja is among hojas_disponibles.
C18_HojaDeLaTabla ==
    (LibroLeido /\ res.ret = "True" /\ esta_cargado /\ nombre_hoja # None) =>
        /\ hojas_disponibles # <<>>
        /\ HojaParseada = IF EstaEn(nombre_hoja, hojas_disponibles)
                          THEN nombre_hoja ELSE hojas_disponibles[1]
        /\ res.op = "cambiar_hoja" =>
                /\ nombre_hoja = res.arg
                /\ EstaEn(nombre_hoja, hojas_disponibles)

\* C18 witness: loaded from the first sheet while nombre_hoja names no sheet
C18_Witness ==
    /\ LibroLeido
    /\ res.ret = "True"
    /\ esta_cargado
    /\ nombre_hoja # None
    /\ ~EstaEn(nombre_hoja, hojas_disponibles)
    /\ Len(hojas_disponibles) = 2
    /\ HojaParseada = hojas_disponibles[1]

\* C19 (as claimed): limpiar_y_transformar_datos keeps the missing values:
\* the table it leaves has as many missing values as the rows that survive
\* the removal of duplicates had before it.
C19_FaltantesConservados ==
    (Limpio /\ res.ret = "True") =>
        CountNulls(dataframe.t) =
            CountNulls([res.antes.dataframe.t EXCEPT !.rows = DropDuplicates(@)])

====
